---- MODULE Spec2Model ----
(***************************************************************************)
(* Order creation, order reads and anonymous-identity resolution of the    *)
(* exury backend: OrderController (createOrder, getOrder, getUserOrders),  *)
(* getOrCreateAnonymousUserId and the order_number sequence.               *)
(*                                                                         *)
(* Every await of a handler is one step. The database is PostgreSQL in     *)
(* READ COMMITTED: a statement reads through the snapshot taken when it    *)
(* starts, while the unique-index check of INSERT .. ON CONFLICT sees      *)
(* rows committed since.                                                   *)
(***************************************************************************)
EXTENDS Integers, Sequences, FiniteSets, TLC

(* ------------------------------ bounds --------------------------------- *)
MaxReq == 2
NProcs == 2
MaxVer == 2

Reqs == 1..MaxReq
Procs == 1..NProcs
QuoteIds == {"q1"}
AuthUsers == {"u1"}

(* ----------------------------- constants ------------------------------- *)
ANONYMOUS_EMAIL == "anonymous@exury.io"
QUOTE_LOCKED == "QUOTE_LOCKED"
SeqStart == 1

VARIABLES
  users,    \* users table: set of [id, email]
  orders,   \* orders table (committed rows)
  seq,      \* order_number_seq: number of nextval calls served so far
  quotes,   \* quote service: quote id -> [present, valid, ver]
  cache,    \* cachedAnonymousUserId of each process
  pc,       \* position of each request
  req,      \* the request: kind, process, authenticated user, quote_id, :id
  userId,   \* local userId of the handler
  snap,     \* ids visible in the snapshot of the insert-or-read statement
  rows,     \* result.rows of the insert-or-read statement
  quote,    \* local quote of createOrder
  order,    \* local order of createOrder
  resp,     \* the response sent
  err,      \* error.message of the error thrown
  client,   \* pooled client of createOrder: none, held, released
  inTx,     \* the client's connection has an open transaction
  pending,  \* rows written inside the client's open transaction
  hist,     \* history of each request (what it did)
  draws,    \* history: the values nextval handed out, in order
  nodeEnv,  \* process.env.NODE_ENV
  boot,     \* server.ts start-up: migration check, listen, requests taken
  run,      \* the migration runner script
  mig       \* the order_number migration and the orders table it alters

vars == <<users, orders, seq, quotes, cache, pc, req, userId, snap, rows,
          quote, order, resp, err, client, inTx, pending, hist, draws>>

\* the state outside the request handlers
aux == <<nodeEnv, boot, run, mig>>
allvars == <<vars, aux>>

(* ------------------------------ values --------------------------------- *)
NoReq == [kind |-> "none", proc |-> 1, auth |-> "none", quote_id |-> "none", id |-> 0]
NoQuote == [ver |-> 0]
NoOrder == [id |-> 0]
NoResp == [status |-> 0]
NoHist == [validated |-> "none", fetched |-> "none", began |-> FALSE, drew |-> 0,
           wroteUser |-> FALSE, queried |-> FALSE, cachedAtStart |-> FALSE,
           returned |-> "none", qver |-> 0, inserted |-> FALSE, found |-> NoOrder,
           tx |-> <<>>]

Digit(d) ==
  CASE d = 0 -> "0" [] d = 1 -> "1" [] d = 2 -> "2" [] d = 3 -> "3" [] d = 4 -> "4"
    [] d = 5 -> "5" [] d = 6 -> "6" [] d = 7 -> "7" [] d = 8 -> "8" [] d = 9 -> "9"

RECURSIVE String(_)
String(n) == IF n < 10 THEN Digit(n) ELSE String(n \div 10) \o Digit(n % 10)

\* gen_random_uuid(): a value no other call produces
GenRandomUuid(r) == "anon" \o String(r)

\* uuidv4(): an id no order has yet
Uuidv4(used) == CHOOSE i \in 1..(Cardinality(used) + 1) : i \notin used

\* the quote the pricing service holds at version v
QuoteAt(v) ==
  [ver |-> v,
   base |-> IF v % 2 = 1 THEN "EUR" ELSE "USD",
   asset |-> IF v % 2 = 1 THEN "BTC" ELSE "ETH",
   amount |-> 100 * v,
   cryptoAmount |-> 2 * v,
   exchangeRate |-> 50000 + v,
   fee |-> v]


(* -------------------------- pure parts of the code --------------------- *)
\* a sequence that stops advancing once it has handed out its first value
NextValStuck(s) == IF s < SeqStart THEN SeqStart ELSE s

\* nextval('order_number_seq'): the value after the last one handed out
NextVal(s) == s + 1

\* fiatAmount taken from the wrong quote field
NewOrderFieldsSwapped(orderId, uid, quote_id, q) ==
  [id |-> orderId, userId |-> uid, quoteId |-> quote_id, type |-> "buy",
   base |-> q.base, asset |-> q.asset, fiatAmount |-> q.cryptoAmount,
   cryptoAmount |-> q.cryptoAmount, exchangeRate |-> q.exchangeRate,
   fee |-> q.fee, status |-> QUOTE_LOCKED]

\* the argument createOrder builds for orderRepository.create
NewOrderFields(orderId, uid, quote_id, q) ==
  [id |-> orderId,
   userId |-> uid,
   quoteId |-> quote_id,
   type |-> "buy",
   base |-> q.base,
   asset |-> q.asset,
   fiatAmount |-> q.amount,
   cryptoAmount |-> q.cryptoAmount,
   exchangeRate |-> q.exchangeRate,
   fee |-> q.fee,
   status |-> QUOTE_LOCKED]

\* the row the store persists: the fields, the column default of order_number
\* and a payment id that is set later by the webhook
OrderRow(fields, n) ==
  [id |-> fields.id, orderNumber |-> n, userId |-> fields.userId,
   quoteId |-> fields.quoteId, type |-> fields.type, base |-> fields.base,
   asset |-> fields.asset, fiatAmount |-> fields.fiatAmount,
   cryptoAmount |-> fields.cryptoAmount, exchangeRate |-> fields.exchangeRate,
   fee |-> fields.fee, status |-> fields.status, paymentId |-> "null"]

\* the reference derived from the order id instead of the order number
CreatedResponseFromId(orderId, o) ==
  [status |-> 201, id |-> orderId, order_id |-> orderId,
   order_number |-> o.orderNumber, reference |-> String(orderId),
   order_status |-> QUOTE_LOCKED]

\* body of the 201 answer of createOrder
CreatedResponse(orderId, o) ==
  [status |-> 201, id |-> orderId, order_id |-> orderId,
   order_number |-> o.orderNumber, reference |-> String(o.orderNumber),
   order_status |-> QUOTE_LOCKED]

\* body of the 200 answer of getOrder
OrderProjection(o) ==
  [status |-> 200, id |-> o.id, order_id |-> o.id, order_number |-> o.orderNumber,
   quote_id |-> o.quoteId, type |-> o.type, base |-> o.base, asset |-> o.asset,
   fiat_amount |-> o.fiatAmount, amount |-> o.fiatAmount,
   crypto_amount |-> o.cryptoAmount, exchange_rate |-> o.exchangeRate,
   fee |-> o.fee, order_status |-> o.status, reference |-> String(o.orderNumber),
   iban |-> "null", payment_id |-> o.paymentId]

ErrorResponse(code, text) == [status |-> code, error |-> text]
FailureResponse(text, msg) == [status |-> 500, error |-> text, message |-> msg]

\* the error-handling middleware: the message is undefined outside development,
\* and res.json leaves an undefined member out of the body
ErrorMiddleware(env, msg) ==
  IF env = "development"
  THEN [status |-> 500, error |-> "Internal server error", message |-> msg]
  ELSE [status |-> 500, error |-> "Internal server error"]

\* the ownership test left out
NotOwnerUnchecked(o, uid) == FALSE

\* order.userId !== userId
NotOwner(o, uid) == o.userId # uid

\* what getOrder answers once findById has returned o (NoOrder when absent)
GetOrderResult(o, uid) ==
  IF o = NoOrder THEN ErrorResponse(404, "Order not found")
  ELSE IF NotOwner(o, uid) THEN ErrorResponse(403, "Access denied")
  ELSE OrderProjection(o)

\* rows of: SELECT id FROM ins UNION ALL SELECT id FROM users WHERE email = $1 LIMIT 1
\* ins: ids the INSERT returned; visible: ids of the snapshot
InsertOrReadRows(ins, visible) ==
  IF ins # {} THEN <<CHOOSE i \in ins : TRUE>>
  ELSE IF visible # {} THEN <<CHOOSE i \in visible : TRUE>>
  ELSE <<>>

\* the rows with the anonymous email
AnonymousRows(table) == {u \in table : u.email = ANONYMOUS_EMAIL}

\* ON CONFLICT (email) DO NOTHING: the insert is suppressed when the unique
\* index holds the email
InsertSuppressed(table) == AnonymousRows(table) # {}

\* findById / findByUserId of the order store
FindById(id) == IF \E o \in orders : o.id = id THEN CHOOSE o \in orders : o.id = id ELSE NoOrder
FindByUserId(uid) == {o \in orders : o.userId = uid}

\* validateQuote / getQuote of the pricing service
ValidateQuote(q) == quotes[q].present /\ quotes[q].valid
GetQuote(q) == IF quotes[q].present THEN QuoteAt(quotes[q].ver) ELSE NoQuote

\* an invalid quote answered as a missing one
QuoteGateAs404(isValid) ==
  IF ~isValid THEN ErrorResponse(404, "Quote not found") ELSE NoResp

\* if (!isValid) 410; if (!quote) 404: the answer, NoResp when the handler goes on
QuoteGate(isValid) ==
  IF ~isValid THEN ErrorResponse(410, "Quote has expired or is invalid") ELSE NoResp

FetchGate(q) ==
  IF q = NoQuote THEN ErrorResponse(404, "Quote not found") ELSE NoResp

(* ------------------------------- Init ---------------------------------- *)
Init ==
  /\ users = {}
  /\ orders = {}
  /\ seq = SeqStart - 1
  /\ quotes = [q \in QuoteIds |-> [present |-> TRUE, valid |-> TRUE, ver |-> 1]]
  /\ cache = [p \in Procs |-> "none"]
  /\ pc = [r \in Reqs |-> "idle"]
  /\ req = [r \in Reqs |-> NoReq]
  /\ userId = [r \in Reqs |-> "none"]
  /\ snap = [r \in Reqs |-> {}]
  /\ rows = [r \in Reqs |-> <<>>]
  /\ quote = [r \in Reqs |-> NoQuote]
  /\ order = [r \in Reqs |-> NoOrder]
  /\ resp = [r \in Reqs |-> NoResp]
  /\ err = [r \in Reqs |-> "none"]
  /\ client = [r \in Reqs |-> "none"]
  /\ inTx = [r \in Reqs |-> FALSE]
  /\ pending = [r \in Reqs |-> {}]
  /\ hist = [r \in Reqs |-> NoHist]
  /\ draws = <<>>


\* the values process.env.NODE_ENV takes in a deployment
NodeEnvs == {"production", "development"}

\* the server is up, its start-up migration check is over
Booted == [pc |-> "done", listening |-> TRUE, exited |-> FALSE, file |-> 0,
           present |-> <<>>, ran |-> <<>>, taken |-> 0, early |-> 0]

\* the runner script is not running
NotRun == [pc |-> "off", file |-> 0, present |-> <<>>, log |-> <<>>,
           exit |-> -1, said |-> FALSE]

\* the order_number migration has been applied
Migrated == [pc |-> "off", mode |-> "none", column |-> TRUE, notNull |-> TRUE,
             index |-> TRUE, default |-> TRUE, table |-> {}, seq |-> 0,
             failed |-> {}, count |-> 0]

Steady ==
  /\ nodeEnv \in NodeEnvs
  /\ boot = Booted
  /\ run = NotRun
  /\ mig = Migrated


(* ------------------------------ helpers -------------------------------- *)
IsCreate(r) == req[r].kind = "create"

\* the finally block left out: the client is never released
GotoKeepingClient(r, p, rs) ==
  /\ pc' = [pc EXCEPT ![r] = p]
  /\ resp' = [resp EXCEPT ![r] = rs]
  /\ client' = [client EXCEPT ![r] = IF pc[r] = "connect" THEN "held" ELSE @]

\* the request moves to position p having answered rs (resp[r] when it has not
\* answered). A request that leaves pool.connect() holds the client; leaving
\* createOrder runs its finally block, which releases the client
Goto(r, p, rs) ==
  LET held == client[r] = "held" \/ pc[r] = "connect"
  IN /\ pc' = [pc EXCEPT ![r] = p]
     /\ resp' = [resp EXCEPT ![r] = rs]
     /\ client' = [client EXCEPT ![r] =
                     IF held THEN (IF p = "done" THEN "released" ELSE "held") ELSE @]

\* an error with message msg is thrown inside the handler's try block: createOrder
\* goes to its catch block (which awaits ROLLBACK), getOrder and getUserOrders
\* answer 500 at once
Throw(r, msg) ==
  /\ err' = [err EXCEPT ![r] = msg]
  /\ IF IsCreate(r) THEN Goto(r, "catch", resp[r])
     ELSE Goto(r, "done",
               FailureResponse(IF req[r].kind = "get" THEN "Failed to get order"
                               ELSE "Failed to get orders", msg))

\* the handler of request rq continues with userId = uid: createOrder checks
\* quote_id and calls validateQuote, getOrder calls findById, getUserOrders calls
\* findByUserId
Identified(r, rq, uid) ==
  /\ userId' = [userId EXCEPT ![r] = uid]
  /\ CASE rq.kind = "create" ->
            IF rq.quote_id = "none"
            THEN Goto(r, "done", ErrorResponse(400, "quote_id is required"))
            ELSE Goto(r, "validate", resp[r])
       [] rq.kind = "get" -> Goto(r, "find", resp[r])
       [] OTHER -> Goto(r, "findAll", resp[r])

\* userId = req.user?.id || (await getOrCreateAnonymousUserId()), up to the first
\* await: the authenticated id, or the cached id, or the statement is sent
ResolveIdentity(r, rq) ==
  IF rq.auth # "none"
  THEN /\ Identified(r, rq, rq.auth)
       /\ hist' = hist
  ELSE IF cache[rq.proc] # "none"
  THEN /\ Identified(r, rq, cache[rq.proc])
       /\ hist' = [hist EXCEPT ![r].cachedAtStart = TRUE,
                               ![r].returned = cache[rq.proc]]
  ELSE /\ Goto(r, "query", resp[r])
       /\ userId' = userId
       /\ hist' = hist

\* the processes a new request may run in: one that already served an anonymous
\* request, or the next unused one (processes differ only by their cache, which
\* only anonymous requests touch)
ProcsInUse == {req[x].proc : x \in {y \in Reqs : req[y].kind # "none" /\ req[y].auth = "none"}}
ProcChoices(a) ==
  IF a # "none" THEN {1}
  ELSE {p \in Procs : p \in ProcsInUse \/ \A x \in Procs : x < p => x \in ProcsInUse}

(* --------------------------- quote service ----------------------------- *)
QuoteExpire(q) ==
  /\ quotes[q].present /\ quotes[q].valid
  /\ quotes' = [quotes EXCEPT ![q].valid = FALSE]
  /\ UNCHANGED <<users, orders, seq, cache, pc, req, userId, snap, rows, quote,
                 order, resp, err, client, inTx, pending, hist, draws>>
  /\ UNCHANGED aux

QuoteRemove(q) ==
  /\ quotes[q].present
  /\ quotes' = [quotes EXCEPT ![q] = [present |-> FALSE, valid |-> FALSE, ver |-> 0]]
  /\ UNCHANGED <<users, orders, seq, cache, pc, req, userId, snap, rows, quote,
                 order, resp, err, client, inTx, pending, hist, draws>>
  /\ UNCHANGED aux

QuoteMutate(q) ==
  /\ quotes[q].present
  /\ quotes[q].ver < MaxVer
  /\ quotes' = [quotes EXCEPT ![q].ver = @ + 1]
  /\ UNCHANGED <<users, orders, seq, cache, pc, req, userId, snap, rows, quote,
                 order, resp, err, client, inTx, pending, hist, draws>>
  /\ UNCHANGED aux

(* ----------------------------- requests -------------------------------- *)
\* a request arrives at one of the processes and its handler runs up to its
\* first await: pool.connect() in createOrder, the identity in the other two
StartRequest(r) ==
  /\ pc[r] = "idle"
  /\ \A x \in Reqs : x < r => pc[x] # "idle"
  /\ \E k \in {"create", "get", "list"}, a \in AuthUsers \cup {"none"} :
       \E p \in ProcChoices(a),
          q \in (IF k = "create" THEN QuoteIds \cup {"none"} ELSE {"none"}),
          i \in (IF k = "get" THEN Reqs ELSE {0}) :
         LET rq == [kind |-> k, proc |-> p, auth |-> a, quote_id |-> q, id |-> i]
         IN /\ req' = [req EXCEPT ![r] = rq]
            /\ IF k = "create"
               THEN /\ pc' = [pc EXCEPT ![r] = "connect"]
                    /\ UNCHANGED <<resp, client, userId, hist>>
               ELSE ResolveIdentity(r, rq)
  /\ UNCHANGED <<users, orders, seq, quotes, cache, snap, rows, quote,
                 order, err, inTx, pending, draws>>
  /\ UNCHANGED aux

\* a request whose JSON body express.json() cannot parse: the parser passes the
\* error on and the error-handling middleware answers
BodyParseError(r) ==
  /\ pc[r] = "idle"
  /\ \A x \in Reqs : x < r => pc[x] # "idle"
  /\ \E p \in ProcChoices("none") :
       req' = [req EXCEPT ![r] = [kind |-> "malformed", proc |-> p, auth |-> "none",
                                  quote_id |-> "none", id |-> 0]]
  /\ Goto(r, "done", ErrorMiddleware(nodeEnv, "Unexpected token in JSON"))
  /\ UNCHANGED <<users, orders, seq, quotes, cache, userId, snap, rows, quote,
                 order, err, inTx, pending, hist, draws>>
  /\ UNCHANGED aux

\* createOrder: const client = await pool.connect(), outside the try block, then
\* the identity up to the first await
Connect(r) ==
  /\ pc[r] = "connect"
  /\ \E ok \in BOOLEAN :
       IF ok
       THEN /\ err' = err
            /\ ResolveIdentity(r, req[r])
       ELSE /\ pc' = [pc EXCEPT ![r] = "done"]
            /\ err' = [err EXCEPT ![r] = "connect failed"]
            /\ UNCHANGED <<client, resp, userId, hist>>
  /\ UNCHANGED <<users, orders, seq, quotes, cache, req, snap, rows,
                 quote, order, inTx, pending, draws>>
  /\ UNCHANGED aux

\* the insert-or-read statement starts: its snapshot is taken
QuerySnapshot(r) ==
  /\ pc[r] = "query"
  /\ snap' = [snap EXCEPT ![r] = {u.id : u \in AnonymousRows(users)}]
  /\ hist' = [hist EXCEPT ![r].queried = TRUE]
  /\ Goto(r, "exec", resp[r])
  /\ UNCHANGED <<users, orders, seq, quotes, cache, req, userId, rows, quote,
                 order, err, inTx, pending, draws>>
  /\ UNCHANGED aux

\* the statement runs (pool.query: autocommit) or the query is rejected
QueryExec(r) ==
  /\ pc[r] = "exec"
  /\ \E ok \in BOOLEAN :
       IF ok
       THEN LET suppressed == InsertSuppressed(users)
                ins == IF suppressed THEN {} ELSE {GenRandomUuid(r)}
            IN /\ users' = users \cup {[id |-> i, email |-> ANONYMOUS_EMAIL] : i \in ins}
               /\ rows' = [rows EXCEPT ![r] = InsertOrReadRows(ins, snap[r])]
               /\ hist' = [hist EXCEPT ![r].wroteUser = (ins # {})]
               /\ err' = err
               /\ Goto(r, "result", resp[r])
       ELSE /\ Throw(r, "query failed")
            /\ hist' = [hist EXCEPT ![r].returned = "rejected"]
            /\ UNCHANGED <<users, rows>>
  /\ UNCHANGED <<orders, seq, quotes, cache, req, userId, snap, quote, order,
                 inTx, pending, draws>>
  /\ UNCHANGED aux

\* getOrCreateAnonymousUserId after the await: no row throws, else cache and return
ResolveReturn(r) ==
  /\ pc[r] = "result"
  /\ IF Len(rows[r]) = 0
     THEN /\ Throw(r, "Failed to get or create anonymous user")
          /\ hist' = [hist EXCEPT ![r].returned = "error"]
          /\ UNCHANGED <<cache, userId>>
     ELSE /\ cache' = [cache EXCEPT ![req[r].proc] = rows[r][1]]
          /\ Identified(r, req[r], rows[r][1])
          /\ hist' = [hist EXCEPT ![r].returned = rows[r][1]]
          /\ err' = err
  /\ UNCHANGED <<users, orders, seq, quotes, req, snap, rows, quote, order,
                 inTx, pending, draws>>
  /\ UNCHANGED aux


\* const isValid = await pricingService.validateQuote(quote_id)
ValidateQuoteStep(r) ==
  /\ pc[r] = "validate"
  /\ \E ok \in BOOLEAN :
       IF ok
       THEN /\ hist' = [hist EXCEPT ![r].validated =
                          IF ValidateQuote(req[r].quote_id) THEN "true" ELSE "false"]
            /\ err' = err
            /\ IF QuoteGate(ValidateQuote(req[r].quote_id)) = NoResp
               THEN Goto(r, "getQuote", resp[r])
               ELSE Goto(r, "done", QuoteGate(ValidateQuote(req[r].quote_id)))
       ELSE /\ Throw(r, "pricing failed")
            /\ hist' = hist
  /\ UNCHANGED <<users, orders, seq, quotes, cache, req, userId, snap, rows,
                 quote, order, inTx, pending, draws>>
  /\ UNCHANGED aux

\* const quote = await pricingService.getQuote(quote_id)
GetQuoteStep(r) ==
  /\ pc[r] = "getQuote"
  /\ \E ok \in BOOLEAN :
       IF ok
       THEN LET q == GetQuote(req[r].quote_id)
            IN /\ hist' = [hist EXCEPT
                             ![r].fetched = IF q = NoQuote THEN "absent" ELSE "found",
                             ![r].qver = IF q = NoQuote THEN 0 ELSE quotes[req[r].quote_id].ver]
               /\ err' = err
               /\ quote' = [quote EXCEPT ![r] = q]
               /\ IF FetchGate(q) = NoResp
                  THEN Goto(r, "begin", resp[r])
                  ELSE Goto(r, "done", FetchGate(q))
       ELSE /\ Throw(r, "pricing failed")
            /\ UNCHANGED <<hist, quote>>
  /\ UNCHANGED <<users, orders, seq, quotes, cache, req, userId, snap, rows,
                 order, inTx, pending, draws>>
  /\ UNCHANGED aux

\* await client.query('BEGIN')
Begin(r) ==
  /\ pc[r] = "begin"
  /\ \E ok \in BOOLEAN :
       IF ok
       THEN /\ inTx' = [inTx EXCEPT ![r] = TRUE]
            /\ hist' = [hist EXCEPT ![r].began = TRUE, ![r].tx = Append(@, "BEGIN")]
            /\ err' = err
            /\ Goto(r, "insert", resp[r])
       ELSE /\ Throw(r, "BEGIN failed")
            /\ hist' = [hist EXCEPT ![r].tx = Append(@, "BEGIN")]
            /\ inTx' = inTx
  /\ UNCHANGED <<users, orders, seq, quotes, cache, req, userId, snap, rows,
                 quote, order, pending, draws>>
  /\ UNCHANGED aux

\* INSERT INTO orders: the table gains the row; an upsert keyed on the user
\* would replace the user's earlier order instead
InsertReplacing(table, row) == {o \in table : o.userId # row.userId} \cup {row}
Insert(table, row) == table \cup {row}

\* the connection orderRepository.create runs its statement on: createOrder hands
\* it the fields only, not its client, and the pool never lends a checked-out client
StoreConnection(r) == "pool"

\* the INSERT violates a unique index (primary key, orders_order_number_idx)
UniqueViolation(row) ==
  \E o \in orders \cup UNION {pending[x] : x \in Reqs} :
     o.id = row.id \/ o.orderNumber = row.orderNumber

\* const order = await orderRepository.create({...}) with orderId = uuidv4():
\* the statement is rejected before it runs, or draws nextval and then fails,
\* or draws nextval and inserts the row
CreateInsert(r) ==
  /\ pc[r] = "insert"
  /\ \E outcome \in {"rejected", "failed", "inserted"} :
       LET orderId == Uuidv4({o.id : o \in orders})
           n == NextVal(seq)
           row == OrderRow(NewOrderFields(orderId, userId[r], req[r].quote_id, quote[r]), n)
       IN IF outcome = "rejected"
          THEN /\ Throw(r, "insert failed")
               /\ UNCHANGED <<orders, pending, seq, draws, order, hist>>
          ELSE /\ seq' = n
               /\ draws' = Append(draws, n)
               /\ IF outcome = "failed" \/ UniqueViolation(row)
                  THEN /\ Throw(r, "insert failed")
                       /\ hist' = [hist EXCEPT ![r].drew = n]
                       /\ UNCHANGED <<orders, pending, order>>
                  ELSE /\ IF StoreConnection(r) = "client" /\ inTx[r]
                          THEN /\ pending' = [pending EXCEPT ![r] = @ \cup {row}]
                               /\ orders' = orders
                          ELSE /\ orders' = Insert(orders, row)
                               /\ pending' = pending
                       /\ order' = [order EXCEPT ![r] = row]
                       /\ hist' = [hist EXCEPT ![r].drew = n, ![r].inserted = TRUE]
                       /\ err' = err
                       /\ Goto(r, "commit", resp[r])
  /\ UNCHANGED <<users, quotes, cache, req, userId, snap, rows, quote, inTx>>
  /\ UNCHANGED aux

\* await client.query('COMMIT'), then the 201 answer
Commit(r) ==
  /\ pc[r] = "commit"
  /\ \E ok \in BOOLEAN :
       IF ok
       THEN /\ orders' = orders \cup pending[r]
            /\ pending' = [pending EXCEPT ![r] = {}]
            /\ inTx' = [inTx EXCEPT ![r] = FALSE]
            /\ err' = err
            /\ Goto(r, "done", CreatedResponse(order[r].id, order[r]))
       ELSE /\ Throw(r, "COMMIT failed")
            /\ UNCHANGED <<orders, pending, inTx>>
  /\ hist' = [hist EXCEPT ![r].tx = Append(@, "COMMIT")]
  /\ UNCHANGED <<users, seq, quotes, cache, req, userId, snap, rows, quote,
                 order, draws>>
  /\ UNCHANGED aux

\* catch: await client.query('ROLLBACK'), then the 500 answer; a ROLLBACK that is
\* rejected throws out of the catch block, and the request is left unanswered
Catch(r) ==
  /\ pc[r] = "catch"
  /\ \E ok \in BOOLEAN :
       IF ok
       THEN /\ pending' = [pending EXCEPT ![r] = {}]
            /\ inTx' = [inTx EXCEPT ![r] = FALSE]
            /\ err' = err
            /\ Goto(r, "done", FailureResponse("Failed to create order", err[r]))
       ELSE /\ pending' = [pending EXCEPT ![r] = {}]
            /\ inTx' = inTx
            /\ err' = [err EXCEPT ![r] = "ROLLBACK failed"]
            /\ Goto(r, "done", resp[r])
  /\ hist' = [hist EXCEPT ![r].tx = Append(@, "ROLLBACK")]
  /\ UNCHANGED <<users, orders, seq, quotes, cache, req, userId, snap, rows,
                 quote, order, draws>>
  /\ UNCHANGED aux

\* getOrder: const order = await orderRepository.findById(id), then the answer
FindByIdStep(r) ==
  /\ pc[r] = "find"
  /\ \E ok \in BOOLEAN :
       IF ok
       THEN /\ hist' = [hist EXCEPT ![r].found = FindById(req[r].id)]
            /\ err' = err
            /\ Goto(r, "done", GetOrderResult(FindById(req[r].id), userId[r]))
       ELSE /\ Throw(r, "query failed")
            /\ hist' = hist
  /\ UNCHANGED <<users, orders, seq, quotes, cache, req, userId, snap, rows,
                 quote, order, inTx, pending, draws>>
  /\ UNCHANGED aux

\* getUserOrders: const orders = await orderRepository.findByUserId(userId)
FindByUserIdStep(r) ==
  /\ pc[r] = "findAll"
  /\ \E ok \in BOOLEAN :
       IF ok
       THEN /\ err' = err
            /\ Goto(r, "done", [status |-> 200, orders |-> FindByUserId(userId[r])])
       ELSE Throw(r, "query failed")
  /\ UNCHANGED <<users, orders, seq, quotes, cache, req, userId, snap, rows,
                 quote, order, inTx, pending, hist, draws>>
  /\ UNCHANGED aux

(* ------------------------------ behaviour ------------------------------ *)
Next ==
  \/ \E q \in QuoteIds : QuoteExpire(q)
  \/ \E q \in QuoteIds : QuoteRemove(q)
  \/ \E q \in QuoteIds : QuoteMutate(q)
  \/ \E r \in Reqs : StartRequest(r)
  \/ \E r \in Reqs : BodyParseError(r)
  \/ \E r \in Reqs : Connect(r)
  \/ \E r \in Reqs : QuerySnapshot(r)
  \/ \E r \in Reqs : QueryExec(r)
  \/ \E r \in Reqs : ResolveReturn(r)
  \/ \E r \in Reqs : ValidateQuoteStep(r)
  \/ \E r \in Reqs : GetQuoteStep(r)
  \/ \E r \in Reqs : Begin(r)
  \/ \E r \in Reqs : CreateInsert(r)
  \/ \E r \in Reqs : Commit(r)
  \/ \E r \in Reqs : Catch(r)
  \/ \E r \in Reqs : FindByIdStep(r)
  \/ \E r \in Reqs : FindByUserIdStep(r)

\* the handlers run in a server that is up, in either environment
SteadyInit == Init /\ Steady

Spec == SteadyInit /\ [][Next]_allvars


(* --------------------------- server start-up --------------------------- *)
\* bound: requests taken while the start-up is observed
MaxTaken == 2

MigrationFiles == <<"001_initial_schema.sql", "002_add_email_verification.sql",
                    "003_add_apple_facebook_ids.sql">>

\* the process has been started, nothing of server.ts has run; present[k] is
\* fs.existsSync of the k-th migration file
BootInit ==
  \E e \in [DOMAIN MigrationFiles -> BOOLEAN] :
     boot = [pc |-> "start", listening |-> FALSE, exited |-> FALSE, file |-> 0,
             present |-> e, ran |-> <<>>, taken |-> 0, early |-> 0]

\* the loop of runMigrationsIfNeeded from file k on: the first file that
\* exists, or 0 when none is left
NextPresent(present, k) ==
  LET left == {j \in DOMAIN present : j >= k /\ present[j]}
  IN IF left = {} THEN 0 ELSE CHOOSE j \in left : \A i \in left : j <= i

BootStep(change) ==
  /\ ~boot.exited
  /\ boot' = change
  /\ UNCHANGED <<vars, nodeEnv, run, mig>>

\* the module body runs to its end: runMigrationsIfNeeded() is called and
\* returns its promise at the first await (the query for the users table),
\* .then/.catch are attached, the process handlers are registered and
\* app.listen is called
BootModule ==
  /\ boot.pc = "start"
  /\ BootStep([boot EXCEPT !.pc = "check"])

\* the server socket is bound: 'listening', or 'error' and process.exit(1)
Listening ==
  /\ boot.pc # "start"
  /\ ~boot.listening
  /\ \E ok \in BOOLEAN :
       IF ok THEN BootStep([boot EXCEPT !.listening = TRUE])
       ELSE BootStep([boot EXCEPT !.exited = TRUE])

\* the query for the users table settles: the table exists and the migrations
\* are skipped, or it does not and the loop reaches the first file that
\* exists, or the query is rejected and the catch block goes on
MigrationCheck ==
  /\ boot.pc = "check"
  /\ \E result \in {"exists", "absent", "error"} :
       LET k == NextPresent(boot.present, 1)
       IN IF result = "absent" /\ k # 0
          THEN BootStep([boot EXCEPT !.pc = "file", !.file = k])
          ELSE BootStep([boot EXCEPT !.pc = "done"])

\* await pool.query(sql) of the current file settles: the loop goes on to the
\* next file that exists, or the catch block ends the function
RunMigrationFile ==
  /\ boot.pc = "file"
  /\ \E ok \in BOOLEAN :
       LET k == NextPresent(boot.present, boot.file + 1)
       IN IF ok /\ k # 0
          THEN BootStep([boot EXCEPT !.file = k, !.ran = Append(@, boot.file)])
          ELSE BootStep([boot EXCEPT !.pc = "done", !.file = 0,
                                     !.ran = IF ok THEN Append(@, boot.file) ELSE @])

\* the listening server takes a request and runs its handler
HandleRequest ==
  /\ boot.listening
  /\ boot.taken < MaxTaken
  /\ BootStep([boot EXCEPT !.taken = @ + 1,
                           !.early = IF boot.pc # "done" THEN @ + 1 ELSE @])

BootNext ==
  \/ BootModule
  \/ Listening
  \/ MigrationCheck
  \/ RunMigrationFile
  \/ HandleRequest

\* the process starts with no request in it
StartInit ==
  Init /\ nodeEnv = "production" /\ BootInit /\ run = NotRun /\ mig = Migrated

SpecBoot == StartInit /\ [][BootNext]_allvars


(* ----------------------- the migration runner script ------------------ *)
\* the list of the script, the same three files
RunnerFiles == MigrationFiles

\* messages of the errors pool.query(sql) can be rejected with, word by word
Messages == {<<"relation", "users", "already", "exists">>,
             <<"duplicate", "key", "value">>,
             <<"syntax", "error">>,
             <<"connection", "terminated">>}

\* msg.includes(phrase)
Includes(msg, phrase) ==
  \E i \in 0..(Len(msg) - Len(phrase)) :
     \A j \in 1..Len(phrase) : msg[i + j] = phrase[j]

\* every failure taken for an earlier run of the file
AlreadyAppliedAlways(msg) == TRUE

\* error.message.includes('already exists') || error.message.includes('duplicate')
AlreadyApplied(msg) ==
  Includes(msg, <<"already", "exists">>) \/ Includes(msg, <<"duplicate">>)

RunInit ==
  \E e \in [DOMAIN RunnerFiles -> BOOLEAN] :
     run = [pc |-> "start", file |-> 0, present |-> e, log |-> <<>>,
            exit |-> -1, said |-> FALSE]

RunStep(change) ==
  /\ run.exit = -1
  /\ run' = change
  /\ UNCHANGED <<vars, nodeEnv, boot, mig>>

Logged(k, result, msg) == Append(run.log, [file |-> k, result |-> result, msg |-> msg])

\* the loop arrives at file k with file k - 1 logged: past the last file the
\* success line is printed and the verification query is sent; a missing file
\* is process.exit(1); otherwise pool.query(sql) is sent
Arrive(k, log) ==
  IF k > Len(RunnerFiles)
  THEN [run EXCEPT !.pc = "verify", !.file = 0, !.log = log, !.said = TRUE]
  ELSE IF ~run.present[k]
       THEN [run EXCEPT !.pc = "exited", !.file = k, !.exit = 1,
                        !.log = Append(log, [file |-> k, result |-> "missing", msg |-> <<>>])]
       ELSE [run EXCEPT !.pc = "file", !.file = k, !.log = log]

\* the script starts: without DATABASE_URL it exits with 1, else runMigrations
\* sends SELECT NOW()
RunStart ==
  /\ run.pc = "start"
  /\ \E url \in BOOLEAN :
       IF url THEN RunStep([run EXCEPT !.pc = "connect"])
       ELSE RunStep([run EXCEPT !.pc = "exited", !.exit = 1])

\* await pool.query('SELECT NOW()') settles
RunConnect ==
  /\ run.pc = "connect"
  /\ \E ok \in BOOLEAN :
       IF ok THEN RunStep(Arrive(1, run.log))
       ELSE RunStep([run EXCEPT !.pc = "exited", !.exit = 1])

\* await pool.query(sql) of the current file settles: completed, or rejected
\* with a message that is taken for already applied, or rejected otherwise,
\* which is rethrown to the outer catch: process.exit(1)
RunFile ==
  /\ run.pc = "file"
  /\ \/ RunStep(Arrive(run.file + 1, Logged(run.file, "completed", <<>>)))
     \/ \E msg \in Messages :
          IF AlreadyApplied(msg)
          THEN RunStep(Arrive(run.file + 1, Logged(run.file, "skipped", msg)))
          ELSE RunStep([run EXCEPT !.pc = "exited", !.exit = 1,
                                   !.log = Logged(run.file, "failed", msg)])

\* the verification query settles; then finally: await pool.end()
RunVerify ==
  /\ run.pc = "verify"
  /\ \E ok \in BOOLEAN :
       IF ok THEN RunStep([run EXCEPT !.pc = "end"])
       ELSE RunStep([run EXCEPT !.pc = "exited", !.exit = 1])

\* pool.end() settles: the script ends with 0, or the rejection reaches
\* runMigrations().catch: process.exit(1)
RunEnd ==
  /\ run.pc = "end"
  /\ \E ok \in BOOLEAN :
       RunStep([run EXCEPT !.pc = "exited", !.exit = IF ok THEN 0 ELSE 1])

RunNext ==
  \/ RunStart
  \/ RunConnect
  \/ RunFile
  \/ RunVerify
  \/ RunEnd

\* the script is started on its own
ScriptInit ==
  Init /\ nodeEnv = "production" /\ boot = Booted /\ RunInit /\ mig = Migrated

SpecRun == ScriptInit /\ [][RunNext]_allvars


(* ---------------------- the order_number migration --------------------- *)
\* bounds: orders stored before the migration, orders created while it runs
MaxLegacy == 2
MaxNew == 2

\* how the file is applied: psql -f commits each statement on its own and goes
\* on after a failed one; pool.query(sql) sends the file as one simple query,
\* which the server runs as a single transaction
MigModes == {"statement", "transaction"}

\* the rows of orders as the migration sees them; n = 0 is a NULL order_number
LegacyRows(k) == {[id |-> i, n |-> 0, from |-> "none"] : i \in 1..k}

MigInit ==
  \E m \in MigModes, k \in 0..MaxLegacy :
     mig = [pc |-> "sequence", mode |-> m, column |-> FALSE, notNull |-> FALSE,
            index |-> FALSE, default |-> FALSE, table |-> LegacyRows(k),
            seq |-> SeqStart - 1, failed |-> {}, count |-> 0]

\* the injective assignments of the next values of the sequence to the rows
\* the backfill selects, whichever order the scan visits them in
Numberings(ids, s) ==
  {f \in [ids -> (s + 1)..(s + Cardinality(ids))] :
     \A a, b \in ids : a # b => f[a] # f[b]}

\* WITH numbered AS (SELECT id, nextval(..) AS n FROM orders WHERE order_number
\* IS NULL) UPDATE orders SET order_number = numbered.n ...
Backfill(table, f) ==
  {IF o.id \in DOMAIN f THEN [o EXCEPT !.n = f[o.id], !.from = "backfill"] ELSE o :
     o \in table}

\* ALTER TABLE holds an ACCESS EXCLUSIVE lock on orders until its transaction
\* ends, which in one transaction for the whole file is the end of the file
OrdersLocked ==
  /\ mig.mode = "transaction"
  /\ mig.pc \in {"backfill", "notnull", "index", "default"}

MigStep(next, change) ==
  /\ mig' = [change EXCEPT !.pc = next]
  /\ UNCHANGED <<vars, nodeEnv, boot, run>>

\* CREATE SEQUENCE IF NOT EXISTS order_number_seq
MigCreateSequence ==
  /\ mig.pc = "sequence"
  /\ MigStep("column", mig)

\* ALTER TABLE orders ADD COLUMN IF NOT EXISTS order_number INTEGER
MigAddColumn ==
  /\ mig.pc = "column"
  /\ MigStep("backfill", [mig EXCEPT !.column = TRUE])

MigBackfill ==
  /\ mig.pc = "backfill"
  /\ LET ids == {o.id : o \in {x \in mig.table : x.n = 0}}
     IN \E f \in Numberings(ids, mig.seq) :
          MigStep("notnull", [mig EXCEPT !.table = Backfill(mig.table, f),
                                         !.seq = mig.seq + Cardinality(ids)])

\* ALTER TABLE orders ALTER COLUMN order_number SET NOT NULL: fails when a row
\* holds NULL
MigSetNotNull ==
  /\ mig.pc = "notnull"
  /\ IF \E o \in mig.table : o.n = 0
     THEN MigStep("index", [mig EXCEPT !.failed = @ \cup {"notnull"}])
     ELSE MigStep("index", [mig EXCEPT !.notNull = TRUE])

\* CREATE UNIQUE INDEX IF NOT EXISTS orders_order_number_idx: NULLs never
\* collide, equal numbers do
MigCreateIndex ==
  /\ mig.pc = "index"
  /\ IF \E a, b \in mig.table : a # b /\ a.n # 0 /\ a.n = b.n
     THEN MigStep("default", [mig EXCEPT !.failed = @ \cup {"index"}])
     ELSE MigStep("default", [mig EXCEPT !.index = TRUE])

\* ALTER TABLE orders ALTER COLUMN order_number SET DEFAULT nextval(..)
MigSetDefault ==
  /\ mig.pc = "default"
  /\ MigStep("done", [mig EXCEPT !.default = TRUE])

\* a createOrder inserts its order while the file is being applied or after:
\* order_number comes from the column default when there is one, and is NULL
\* otherwise, which a NOT NULL column refuses
MigInsert ==
  /\ mig.count < MaxNew
  /\ ~OrdersLocked
  /\ LET id == MaxLegacy + mig.count + 1
         n == IF mig.default THEN NextVal(mig.seq) ELSE 0
         row == [id |-> id, n |-> n, from |-> IF mig.default THEN "default" ELSE "none"]
         refused == \/ n = 0 /\ mig.notNull
                    \/ mig.index /\ \E o \in mig.table : n # 0 /\ o.n = n
     IN MigStep(mig.pc, [mig EXCEPT !.count = @ + 1,
                                    !.seq = IF mig.default THEN n ELSE @,
                                    !.table = IF refused THEN @ ELSE @ \cup {row}])

MigNext ==
  \/ MigCreateSequence
  \/ MigAddColumn
  \/ MigBackfill
  \/ MigSetNotNull
  \/ MigCreateIndex
  \/ MigSetDefault
  \/ MigInsert

\* the file is applied to a database the server is using
ApplyInit ==
  Init /\ nodeEnv = "production" /\ boot = Booted /\ run = NotRun /\ MigInit

SpecMig == ApplyInit /\ [][MigNext]_allvars


(* ------------------------------ the claims ----------------------------- *)
Done(r) == pc[r] = "done"
Creates == {r \in Reqs : req[r].kind = "create"}
Gets == {r \in Reqs : req[r].kind = "get"}
Lists == {r \in Reqs : req[r].kind = "list"}
AnonymousCalls == {r \in Creates \cup Gets \cup Lists : req[r].auth = "none"}
AnonymousIds == {u.id : u \in AnonymousRows(users)}
Range(f) == {f[i] : i \in DOMAIN f}

\* the identity a request acts as: its authenticated id, else the id of the
\* users row with the anonymous email
CallerIdentity(r) ==
  IF req[r].auth # "none" THEN req[r].auth
  ELSE IF AnonymousIds = {} THEN "none"
  ELSE CHOOSE i \in AnonymousIds : TRUE

\* the request whose insert created order id
CreatorOf(id) == {c \in Creates : hist[c].inserted /\ order[c].id = id}

\* C1: concurrent first calls of getOrCreateAnonymousUserId create exactly one
\* anonymous row, and every call whose statement the database ran returns the id
\* of that row (none fails, none gets another id)
C1_EveryCallerGetsTheOneRow ==
  /\ Cardinality(AnonymousRows(users)) <= 1
  /\ \A r \in AnonymousCalls :
       hist[r].queried /\ hist[r].returned \notin {"none", "rejected"}
         => hist[r].returned \in AnonymousIds


\* C2: no two persisted orders share an orderNumber; the numbers handed out are the
\* consecutive integers from the start of the sequence; every persisted number is
\* one of them, and a number no order carries was drawn by an attempt that failed
C2_UniqueConsecutiveNumbers ==
  /\ \A o1, o2 \in orders : o1.orderNumber = o2.orderNumber => o1 = o2
  /\ draws = [i \in 1..Len(draws) |-> SeqStart + i - 1]
  /\ \A o \in orders : o.orderNumber \in Range(draws)
  /\ \A n \in Range(draws) \ {o.orderNumber : o \in orders} :
       \E r \in Creates : hist[r].drew = n /\ ~hist[r].inserted /\ resp[r].status # 201

\* two requests created orders (with different numbers)
C2_Witness == Cardinality(orders) = 2 /\ \A r \in Reqs : hist[r].inserted

\* C3: a createOrder request that ended without answering 201 left no order row
C3_FailedCreateLeavesNoRow ==
  \A r \in Creates :
    Done(r) /\ resp[r].status # 201 => ~(hist[r].inserted /\ order[r] \in orders)

\* C4: getOrder answers 200 only with an order whose userId is the caller's
\* identity and answers 403 for an order of somebody else; getUserOrders returns
\* only orders whose userId is the caller's identity
C4_ReadsOnlyByOwner ==
  /\ \A r \in Gets :
       /\ resp[r].status = 200 =>
            \E o \in orders : /\ o.id = req[r].id
                              /\ o.userId = CallerIdentity(r)
                              /\ resp[r].id = o.id
       /\ Done(r) /\ hist[r].found # NoOrder /\ hist[r].found.userId # CallerIdentity(r)
            => resp[r].status = 403
  /\ \A r \in Lists :
       resp[r].status = 200 => \A o \in resp[r].orders : o.userId = CallerIdentity(r)

\* getOrder refused the order of another user
C4_Witness ==
  \E r \in Gets : /\ resp[r].status = 403
                  /\ \E o \in orders : o.id = req[r].id /\ o.userId # CallerIdentity(r)

\* C5: a caller who does not own order X gets the same answer whether X exists
\* (owned by somebody else) or does not exist
C5_DenialHidesExistence ==
  \A r \in Gets :
    Done(r) /\ hist[r].found # NoOrder /\ hist[r].found.userId # userId[r]
      => resp[r] = GetOrderResult(NoOrder, userId[r])

\* C6: createOrder without quote_id answers 400 and writes nothing: no users row,
\* no order row, no value drawn from the sequence
C6_MissingQuoteIdWritesNothing ==
  \A r \in Creates :
    req[r].quote_id = "none" =>
      /\ ~hist[r].wroteUser /\ ~hist[r].inserted /\ hist[r].drew = 0
      /\ resp[r].status \in {0, 400}
      /\ Done(r) /\ client[r] = "released" => resp[r].status = 400

\* C7: getOrder by the owner returns base, asset, fiat amount, crypto amount,
\* exchange rate and fee of the quote as createOrder fetched it, whatever the
\* quote has become since
C7_QuoteFieldsFrozen ==
  \A r \in Gets :
    resp[r].status = 200 =>
      \A c \in CreatorOf(resp[r].id) :
        LET q == QuoteAt(hist[c].qver)
        IN /\ resp[r].base = q.base
           /\ resp[r].asset = q.asset
           /\ resp[r].fiat_amount = q.amount
           /\ resp[r].amount = q.amount
           /\ resp[r].crypto_amount = q.cryptoAmount
           /\ resp[r].exchange_rate = q.exchangeRate
           /\ resp[r].fee = q.fee

\* an order was read back after its quote had changed or gone
C7_Witness ==
  \E r \in Gets :
    /\ resp[r].status = 200
    /\ \E c \in CreatorOf(resp[r].id) :
         /\ resp[c].status = 201
         /\ quotes[req[c].quote_id].ver # hist[c].qver

\* C8: within one process every call of getOrCreateAnonymousUserId returns the same
\* id, at most one of them inserts a row, and a call that starts once the id is
\* cached returns the cached id without a query
C8_OneProcessSameIdOneWrite ==
  (\A x, y \in AnonymousCalls : req[x].proc = req[y].proc) =>
    /\ \A x, y \in AnonymousCalls :
         hist[x].returned \notin {"none", "rejected"} /\ hist[y].returned \notin {"none", "rejected"}
           => hist[x].returned = hist[y].returned /\ hist[x].returned # "error"
    /\ Cardinality({x \in AnonymousCalls : hist[x].wroteUser}) <= 1
    /\ \A x \in AnonymousCalls : hist[x].cachedAtStart => ~hist[x].queried

\* C9: with quote_id present, validateQuote false gives 410; 404 is given exactly
\* when validateQuote was true and getQuote returned nothing; either way no
\* transaction was opened, no order row written and no sequence value drawn
C9_QuoteErrors ==
  \A r \in Creates :
    req[r].quote_id # "none" =>
      /\ hist[r].validated = "false" => resp[r].status = 410
      /\ resp[r].status = 404 <=> (hist[r].validated = "true" /\ hist[r].fetched = "absent")
      /\ resp[r].status = 410 => hist[r].validated = "false"
      /\ resp[r].status \in {404, 410} =>
           /\ ~hist[r].began /\ ~inTx[r] /\ ~hist[r].inserted /\ hist[r].drew = 0
           /\ order[r] = NoOrder

\* the quote was removed between validateQuote and getQuote
C9_Witness ==
  \E r \in Creates : resp[r].status = 404 /\ hist[r].validated = "true"

\* C10: a 201 answer stands for exactly one persisted order, QUOTE_LOCKED, owned by
\* the caller's identity; the answer carries its id, the number of that row, that
\* number in decimal as reference, and QUOTE_LOCKED; a getOrder of the id by the
\* same caller reports the same order_number and reference
C10_CreatedOrder ==
  \A r \in Creates :
    resp[r].status = 201 =>
      /\ Cardinality({o \in orders : o.id = resp[r].id}) = 1
      /\ CreatorOf(resp[r].id) = {r}
      /\ \A o \in orders :
           o.id = resp[r].id =>
             /\ o.status = QUOTE_LOCKED
             /\ o.userId = CallerIdentity(r)
             /\ o.orderNumber = hist[r].drew
             /\ resp[r].order_id = o.id
             /\ resp[r].order_number = o.orderNumber
             /\ resp[r].reference = String(o.orderNumber)
             /\ resp[r].order_status = QUOTE_LOCKED
      /\ \A g \in Gets :
           resp[g].status = 200 /\ resp[g].id = resp[r].id =>
             /\ resp[g].order_number = resp[r].order_number
             /\ resp[g].reference = resp[r].reference

\* an order was created and read back by its owner
C10_Witness ==
  \E r \in Creates, g \in Gets :
    resp[r].status = 201 /\ resp[g].status = 200 /\ resp[g].id = resp[r].id

\* C11: a request whose handler has finished has produced a structured
\* response, whichever collaborator failed at whichever step; no handler
\* ends with its request unanswered.
C11_EveryRequestAnswered ==
  \A r \in Reqs : Done(r) => resp[r].status # 0

\* C12: outside development mode no 500 body carries the raw failure
\* message; it holds the fixed error text only.
C12_NoInternalDetail ==
  nodeEnv # "development" =>
    \A r \in Reqs : resp[r].status = 500 => "message" \notin DOMAIN resp[r]

\* C13: no step deletes or changes an existing order; a step adds at most
\* one row, and only as the single insert of a createOrder request, so
\* getOrder and getUserOrders never write to the orders table.
C13_OrdersFrame ==
  [][ /\ orders \subseteq orders'
      /\ Cardinality(orders' \ orders) <= 1
      /\ orders' # orders =>
            \E r \in Creates : ~hist[r].inserted /\ hist'[r].inserted
    ]_allvars

\* a createOrder has added its row to a table that held another order, and
\* both rows are stored
C13_Witness ==
  \E r \in Creates, o \in orders :
     hist[r].inserted /\ o.id # order[r].id /\ order[r] \in orders

\* C14: once the order_number migration has run, every order has a number,
\* the numbers are all distinct, and no number given to a new order equals a
\* backfilled one; this includes the orders that request handlers inserted
\* while the statements of the migration were executing.
C14_EveryOrderNumberedOnce ==
  mig.pc = "done" =>
    /\ \A o \in mig.table : o.n # 0
    /\ \A a, b \in mig.table : a # b => a.n # b.n

\* C15: the quote is validated and fetched before BEGIN, and the insert runs
\* inside the transaction of the request, so the row it inserted is visible
\* in orders only once the COMMIT of that request has succeeded.
C15_InsertInsideTransaction ==
  \A r \in Creates :
    /\ hist[r].began => hist[r].validated = "true" /\ hist[r].fetched = "found"
    /\ hist[r].inserted /\ order[r] \in orders =>
         Done(r) /\ resp[r].status = 201

\* C16: a call of getOrCreateAnonymousUserId that got zero rows fails: no id
\* is given to the request, and the request ends with a 500 answer and
\* creates no order.
C16_ZeroRowsFailsTheRequest ==
  \A r \in Reqs :
    hist[r].returned = "error" =>
      /\ userId[r] = "none"
      /\ ~hist[r].inserted
      /\ Done(r) => resp[r].status = 500

\* the statements a createOrder request has issued on its client when it
\* answers with the given status
TxOf(status) ==
  CASE status = 201 -> {<<"BEGIN", "COMMIT">>}
    [] status = 500 -> {<<"ROLLBACK">>, <<"BEGIN", "ROLLBACK">>,
                        <<"BEGIN", "COMMIT", "ROLLBACK">>}
    [] OTHER -> {<<>>}

Answered(r) == Done(r) /\ resp[r].status # 0

\* C19 as stated: on every answered path of createOrder the client is
\* released with no transaction open, a BEGIN is followed by exactly one
\* COMMIT or ROLLBACK, and ROLLBACK is issued only after BEGIN.
C19_RollbackOnlyAfterBegin ==
  \A r \in Creates :
    /\ Answered(r) => client[r] = "released" /\ ~inTx[r]
    /\ "ROLLBACK" \in Range(hist[r].tx) => "BEGIN" \in Range(hist[r].tx)
    /\ Answered(r) /\ "BEGIN" \in Range(hist[r].tx) =>
         Cardinality({i \in DOMAIN hist[r].tx :
                        hist[r].tx[i] \in {"COMMIT", "ROLLBACK"}}) = 1

\* C19, amended: a createOrder request holds its client from pool.connect()
\* until it ends, and on every answered path (201, 400, 410, 404, 500) the
\* client is released with no transaction open: 201 follows BEGIN, COMMIT;
\* 400, 410 and 404 issue nothing; 500 follows a ROLLBACK, which is issued
\* whenever a step of the try block throws, whether or not BEGIN was issued
\* and also after a COMMIT that failed.
C19_Bracketing ==
  \A r \in Creates :
    /\ pc[r] \notin {"idle", "connect", "done"} => client[r] = "held"
    /\ Answered(r) =>
         /\ client[r] = "released"
         /\ ~inTx[r]
         /\ hist[r].tx \in TxOf(resp[r].status)

\* a createOrder answered 500 having issued ROLLBACK and no BEGIN, and its
\* client is back in the pool
C19_Witness ==
  \E r \in Creates :
    /\ Answered(r) /\ resp[r].status = 500
    /\ hist[r].tx = <<"ROLLBACK">>
    /\ client[r] = "released"

\* C17: the server listens only after runMigrationsIfNeeded has completed,
\* and no request is handled while the migration check or the migrations are
\* in progress.
C17_ListenAfterMigrations ==
  /\ boot.listening => boot.pc = "done"
  /\ boot.early = 0

Passed(e) == e.result \in {"completed", "skipped"}

\* C18: the runner attempts the listed files in list order, one at a time:
\* a file is attempted only when every file before it completed or was
\* skipped, and it is skipped only for an 'already exists' or 'duplicate'
\* error; a missing file or any other failure ends the run with exit code 1
\* as the last attempt; the success line is printed only when every listed
\* file completed or was skipped.
C18_RunnerInOrder ==
  LET log == run.log
  IN /\ \A i \in DOMAIN log : log[i].file = i
     /\ \A i \in DOMAIN log : i < Len(log) => Passed(log[i])
     /\ run.pc = "file" => run.file = Len(log) + 1 /\ \A i \in DOMAIN log : Passed(log[i])
     /\ \A i \in DOMAIN log :
          /\ log[i].result = "skipped" =>
                \/ Includes(log[i].msg, <<"already", "exists">>)
                \/ Includes(log[i].msg, <<"duplicate">>)
          /\ ~Passed(log[i]) => run.exit = 1 /\ i = Len(log)
     /\ run.said => Len(log) = Len(RunnerFiles) /\ \A i \in DOMAIN log : Passed(log[i])

\* a run skipped its first file as already applied, and stopped with exit
\* code 1 at the second, which failed otherwise
C18_Witness ==
  /\ Len(run.log) = 2
  /\ run.log[1].result = "skipped"
  /\ run.log[2].result = "failed"
  /\ run.exit = 1 /\ ~run.said

====
